---- MODULE Spec2Model ----
(***************************************************************************)
(* Model of creek-backend/audio/recorder.py (class AudioRecorder): the     *)
(* capture pipeline made of the caller's thread (start_recording,          *)
(* stop_recording, record), the audio driver's thread (_audio_callback)    *)
(* and the drain worker thread (_process_audio).  Every step of a thread   *)
(* is one source line (or a few lines that touch no shared state), so the  *)
(* interleavings of the model are the interleavings of the threads.        *)
(***************************************************************************)
EXTENDS Integers, Sequences, FiniteSets, TLC

(***************************************************************************)
(* Bounds of the model.                                                    *)
(***************************************************************************)
\* chunks the driver delivers in one run (the queue itself is unbounded)
MaxChunks == 2
\* API calls (start_recording / stop_recording / record) made in one run
MaxCalls == 2
\* seconds the wall clock advances in one run
MaxClock == 1
\* requests the HTTP layer receives
MaxRequests == 4
\* samples in one array handed to _save_wav
MaxSamples == 2
\* largest sample magnitude, in quarters (8 is 2.0)
MaxQuarters == 8

(***************************************************************************)
(* Program constants and values.                                           *)
(***************************************************************************)
\* queue.Queue() is built without a maxsize: 0 means "no limit"
maxsize == 0
\* frames per driver callback (blocksize of the stream)
chunk_size == 1024
\* capture rate in Hz
sample_rate == 16000
\* channel count
channels == 1

\* self.processing_thread = None
NoThread == 0
\* self.stream does not exist before the first sd.InputStream(...) returns
NoStream == 0
\* self.output_file does not exist before the first start_recording reaches it
NoPath == -1

\* the callbacks a caller may register: none, one that always returns, one
\* that may raise when it is invoked
Callbacks == {"None", "cbOk", "cbRaises"}
\* status flags the driver passes to _audio_callback
StatusFlags == {"", "input overflow"}
\* how time.sleep(duration) ends
SleepOutcomes == {"none", "KeyboardInterrupt", "Exception"}

NoChunk == [id |-> 0, sess |-> 0, n |-> 0, addr |-> 0]
NoFile == [sess |-> 0, data |-> <<>>, whole |-> TRUE, nframes |-> 0,
           nchannels |-> 0, sampwidth |-> 0, framerate |-> 0]
IdleCall == [op |-> "none", pc |-> "idle", cb |-> "None", stops |-> 0]
\* session ids: str(int(time.time())), one per clock second
SessionIds == 0..MaxClock
\* no session id
NoSession == -1
\* no entry under a session id in active_recordings
NoEntry == [present |-> FALSE, file_path |-> NoPath, status |-> "none"]
\* no response sent yet
NoResponse == [kind |-> "none", session_id |-> NoSession, status |-> 0]
\* the event loop is between requests
NoRequest == [kind |-> "none", pc |-> "idle", session_id |-> NoSession]
NoResult == [op |-> "none", fn |-> "none", out |-> "none", exc |-> "none",
             val |-> NoPath, sess |-> "none", stops |-> 0]

VARIABLES
  \* ---- fields of the AudioRecorder object
  recording,          \* self.recording
  audio_queue,        \* self.audio_queue: sequence of chunks, head is next out
  frames,             \* self.frames
  processing_thread,  \* self.processing_thread: worker id or NoThread
  callback,           \* self.callback
  stream,             \* self.stream: stream id or NoStream
  output_file,        \* self.output_file: path or NoPath
  \* ---- what the recorder works with
  streams,            \* streams[s]: state of the s-th sd.InputStream created
  workers,            \* workers[w]: the w-th threading.Thread(_process_audio):
                      \*   pc, its local data, the callback registered when it
                      \*   was created, the chunks it took from the queue and
                      \*   the callback invocations it made
  files,              \* files[p]: the WAV file at path p, or NoFile
  clock,              \* wall clock: the second the last datetime.now() returned
  delivered,          \* every chunk the driver has handed to _audio_callback
  heap,               \* heap[a]: number of the block whose samples the array at
                      \*   address a holds (0: none yet)
  \* ---- the threads that call the recorder
  threads,            \* ids of the calling threads
  call,               \* call[c]: the API call thread c is executing
  result,             \* result[c]: how the last call of thread c ended
  quota,              \* quota[c]: API calls thread c may still make
  session,            \* history: "none", "active" (start returned), "failed"
  returned,           \* history: the paths start_recording has returned, in order
  \* ---- _save_wav taken alone
  audio_data,         \* its argument: float32 samples, in quarters (k is k/4)
  audio_int16,        \* the int16 samples it hands to writeframes
  \* ---- the HTTP layer of main.py
  active_recordings,  \* active_recordings[id]: the entry stored under session
                      \*   id `id`, or NoEntry
  request,            \* the request the event loop is handling
  response,           \* the last response: the request it answers and its
                      \*   status code
  owner,              \* history: session id under which the recording in
                      \*   progress was started, or NoSession
  requests            \* number of requests received

rec == <<recording, audio_queue, frames, processing_thread,
         callback, stream, output_file>>
env == <<streams, workers, files, clock, delivered, heap>>
ctl == <<threads, call, result, quota, session, returned>>
pcm == <<audio_data, audio_int16>>
web == <<active_recordings, request, response, owner, requests>>
vars == <<rec, env, ctl, pcm, web>>

(***************************************************************************)
(* Helpers.                                                                *)
(***************************************************************************)
\* the output path of a recording started at clock second t:
\* recording_<%Y%m%d_%H%M%S>.wav has one name per second
PathOf(t) == t

Paths == 0..MaxClock

\* variant: the queue built as queue.Queue(maxsize=1)
PutBlocks_bounded(q) == Len(q) >= 1

\* queue.Queue.put blocks only when the queue has a maxsize and is full
PutBlocks(q) == maxsize > 0 /\ Len(q) >= maxsize

\* a <= b for two fractions <<numerator, denominator>> with positive denominators
FracLeq(a, b) == a[1] * b[2] <= b[1] * a[2]

\* frames in a sequence of chunks: the rows of np.concatenate(chunks, axis=0)
RECURSIVE FrameCount(_)
FrameCount(chunks) ==
  IF chunks = <<>> THEN 0 ELSE Head(chunks).n + FrameCount(Tail(chunks))

\* the WAV file _save_wav writes for the chunks of stream s:
\* setnchannels(self.channels), setsampwidth(2), setframerate(self.sample_rate),
\* writeframes(all frames)
WavFile(s, chunks) ==
  [sess |-> s, data |-> chunks, whole |-> TRUE, nframes |-> FrameCount(chunks),
   nchannels |-> channels, sampwidth |-> 2, framerate |-> sample_rate]

\* what is left of a file when the write fails after wave.open(..., 'wb')
\* has truncated it
TruncatedFile(s) ==
  [sess |-> s, data |-> <<>>, whole |-> FALSE, nframes |-> 0,
   nchannels |-> 0, sampwidth |-> 0, framerate |-> 0]

\* chunks the driver delivered through stream s, in delivery order
SessionChunks(s) == SelectSeq(delivered, LAMBDA ch : ch.sess = s)

OpenStreams == {s \in 1..Len(streams) : streams[s] \in {"open", "running", "stopped"}}
LiveWorkers == {w \in 1..Len(workers) : workers[w].pc \notin {"exit", "crashed"}}

\* thread c goes on to line l of the function it executes
Goto(c, l) ==
  /\ call' = [call EXCEPT ![c].pc = l]
  /\ UNCHANGED <<result, session, returned>>

\* what the history variable becomes when function fn ends with (out, exc)
SessionAfter(fn, out, exc) ==
  IF fn = "start"
  THEN IF out = "return" THEN "active"
       ELSE IF exc = "AlreadyRecording" THEN session ELSE "failed"
  ELSE IF out = "raise" /\ exc \in {"NotRecording", "NoStreamAttribute"}
       THEN session ELSE "none"

\* variant: record calls start_recording inside its try, so that the finally
\* clause calls stop_recording also when start_recording raised
Complete_start_inside_try(c, fn, out, exc, val) ==
  /\ session' = SessionAfter(fn, out, exc)
  /\ returned' = IF fn = "start" /\ out = "return"
                 THEN Append(returned, val) ELSE returned
  /\ IF call[c].op = "record" /\ fn = "start"
     THEN /\ call' = [call EXCEPT ![c].pc = "R147"]
          /\ UNCHANGED result
     ELSE /\ call' = [call EXCEPT ![c] = IdleCall]
          /\ result' = [result EXCEPT ![c] =
                          [op |-> call[c].op, fn |-> fn, out |-> out, exc |-> exc,
                           val |-> val, sess |-> session,
                           stops |-> call[c].stops]]

\* function fn (start_recording or stop_recording) of thread c returns val or
\* raises exc; result[c] keeps how it ended, and in sess what the history
\* variable was while it ran.  Inside record, a start_recording that returns continues with
\* the sleep; everything else ends the API call.
Complete(c, fn, out, exc, val) ==
  /\ session' = SessionAfter(fn, out, exc)
  /\ returned' = IF fn = "start" /\ out = "return"
                 THEN Append(returned, val) ELSE returned
  /\ IF call[c].op = "record" /\ fn = "start" /\ out = "return"
     THEN /\ call' = [call EXCEPT ![c].pc = "R147"]
          /\ UNCHANGED result
     ELSE /\ call' = [call EXCEPT ![c] = IdleCall]
          /\ result' = [result EXCEPT ![c] =
                          [op |-> call[c].op, fn |-> fn, out |-> out, exc |-> exc,
                           val |-> val, sess |-> session,
                           stops |-> call[c].stops]]

(***************************************************************************)
(* The calling thread picks its next API call.                             *)
(***************************************************************************)
CallOne(c, ops) ==
  /\ call[c].pc = "idle"
  /\ quota[c] > 0
  /\ \E op \in ops : \E cb \in Callbacks :
       /\ op = "stop" => cb = "None"
       /\ call' = [call EXCEPT ![c] =
                     [op |-> op, pc |-> IF op = "stop" THEN "T100" ELSE "S64",
                      cb |-> cb, stops |-> 0]]
  /\ quota' = [quota EXCEPT ![c] = @ - 1]
  /\ UNCHANGED <<rec, env, threads, pcm, web, result, session, returned>>

\* any of the three operations
Call(c) == CallOne(c, {"start", "stop", "record"})

\* start_recording only
CallStart(c) == CallOne(c, {"start"})

(***************************************************************************)
(* AudioRecorder.start_recording                                           *)
(***************************************************************************)
\* variant: the callback is stored before the flag is tested
start_recording_64_assign_first(c) ==
  /\ call[c].pc = "S64"
  /\ callback' = call[c].cb
  /\ IF recording
     THEN /\ Complete(c, "start", "raise", "AlreadyRecording", NoPath)
     ELSE /\ Goto(c, "S67")
  /\ UNCHANGED <<recording, audio_queue, frames, processing_thread,
                 stream, output_file, env, threads, pcm, web, quota>>

\* if self.recording: raise RuntimeError("Recording is already in progress")
start_recording_64(c) ==
  /\ call[c].pc = "S64"
  /\ IF recording
     THEN /\ Complete(c, "start", "raise", "AlreadyRecording", NoPath)
     ELSE /\ Goto(c, "S67")
  /\ UNCHANGED <<rec, env, threads, pcm, web, quota>>

\* self.callback = callback
start_recording_67(c) ==
  /\ call[c].pc = "S67"
  /\ callback' = call[c].cb
  /\ Goto(c, "S68")
  /\ UNCHANGED <<recording, audio_queue, frames, processing_thread,
                 stream, output_file, env, threads, pcm, web, quota>>

\* self.recording = True
start_recording_68(c) ==
  /\ call[c].pc = "S68"
  /\ recording' = TRUE
  /\ Goto(c, "S69")
  /\ UNCHANGED <<audio_queue, frames, processing_thread, callback,
                 stream, output_file, env, threads, pcm, web, quota>>

\* a start_recording that keeps the frames of the session before
start_recording_69_keeps_frames(c) ==
  /\ call[c].pc = "S69"
  /\ Goto(c, "S73")
  /\ UNCHANGED <<rec, env, threads, pcm, web, quota>>

\* self.frames = []
\* (self.start_time = time.time() follows: the field is read nowhere and is
\* not kept in the model)
start_recording_69(c) ==
  /\ call[c].pc = "S69"
  /\ frames' = <<>>
  /\ Goto(c, "S73")
  /\ UNCHANGED <<recording, audio_queue, processing_thread, callback,
                 stream, output_file, env, threads, pcm, web, quota>>

\* self.stream = sd.InputStream(...): the device opens, or the constructor raises
start_recording_73(c) ==
  /\ call[c].pc = "S73"
  /\ \/ /\ streams' = Append(streams, "open")
        /\ stream' = Len(streams) + 1
        /\ Goto(c, "S82")
     \/ /\ Complete(c, "start", "raise", "DeviceOpenError", NoPath)
        /\ UNCHANGED <<streams, stream>>
  /\ UNCHANGED <<recording, audio_queue, frames, processing_thread,
                 callback, output_file, workers, files, clock, delivered, heap,
                 threads, pcm, web, quota>>

\* self.processing_thread = threading.Thread(target=self._process_audio); .start()
start_recording_82(c) ==
  /\ call[c].pc = "S82"
  /\ workers' = Append(workers, [pc |-> "L42", data |-> NoChunk,
                                 registered |-> callback,
                                 drained |-> <<>>, calls |-> <<>>])
  /\ processing_thread' = Len(workers) + 1
  /\ Goto(c, "S86")
  /\ UNCHANGED <<recording, audio_queue, frames, callback, stream,
                 output_file, streams, files, clock, delivered, heap, threads, pcm, web, quota>>

\* self.stream.start(): the stream runs, or the driver raises
start_recording_86(c) ==
  /\ call[c].pc = "S86"
  /\ \/ /\ streams' = [streams EXCEPT ![stream] = "running"]
        /\ Goto(c, "S89")
     \/ /\ Complete(c, "start", "raise", "StreamStartError", NoPath)
        /\ UNCHANGED streams
  /\ UNCHANGED <<rec, workers, files, clock, delivered, heap, threads, pcm, web, quota>>

\* timestamp = datetime.now().strftime("%Y%m%d_%H%M%S")
\* self.output_file = self.output_dir / f"recording_{timestamp}.wav"
\* return str(self.output_file)
\* datetime.now() returns the second of the last reading or a later one
start_recording_89(c) ==
  /\ call[c].pc = "S89"
  /\ \E now \in clock..MaxClock :
       /\ clock' = now
       /\ output_file' = PathOf(now)
       /\ Complete(c, "start", "return", "none", PathOf(now))
  /\ UNCHANGED <<recording, audio_queue, frames, processing_thread,
                 callback, stream, streams, workers, files, delivered, heap,
                 threads, pcm, web, quota>>

start_recording(c) ==
  \/ start_recording_64(c)
  \/ start_recording_67(c)
  \/ start_recording_68(c)
  \/ start_recording_69(c)
  \/ start_recording_73(c)
  \/ start_recording_82(c)
  \/ start_recording_86(c)
  \/ start_recording_89(c)

(***************************************************************************)
(* AudioRecorder.stop_recording                                            *)
(***************************************************************************)
\* variant: the guard tests the thread field instead of the flag
stop_recording_100_tests_thread(c) ==
  /\ call[c].pc = "T100"
  /\ IF processing_thread = NoThread
     THEN /\ Complete(c, "stop", "raise", "NotRecording", NoPath)
     ELSE /\ Goto(c, "T104")
  /\ UNCHANGED <<rec, env, threads, pcm, web, quota>>

\* if not self.recording: raise RuntimeError("No recording in progress")
stop_recording_100(c) ==
  /\ call[c].pc = "T100"
  /\ IF ~recording
     THEN /\ Complete(c, "stop", "raise", "NotRecording", NoPath)
     ELSE /\ Goto(c, "T104")
  /\ UNCHANGED <<rec, env, threads, pcm, web, quota>>

\* self.stream.stop(): AttributeError when no stream was ever opened; errors
\* of the driver are ignored by stop() (ignore_errors=True), so stopping a
\* closed stream leaves it closed
stop_recording_104(c) ==
  /\ call[c].pc = "T104"
  /\ IF stream = NoStream
     THEN /\ Complete(c, "stop", "raise", "NoStreamAttribute", NoPath)
          /\ UNCHANGED streams
     ELSE /\ streams' = [streams EXCEPT ![stream] =
                           IF @ = "closed" THEN "closed" ELSE "stopped"]
          /\ Goto(c, "T105")
  /\ UNCHANGED <<rec, workers, files, clock, delivered, heap, threads, pcm, web, quota>>

\* a stop_recording that goes on without closing the stream
stop_recording_105_leaves_open(c) ==
  /\ call[c].pc = "T105"
  /\ Goto(c, "T106")
  /\ UNCHANGED <<rec, env, threads, pcm, web, quota>>

\* self.stream.close()
stop_recording_105(c) ==
  /\ call[c].pc = "T105"
  /\ streams' = [streams EXCEPT ![stream] = "closed"]
  /\ Goto(c, "T106")
  /\ UNCHANGED <<rec, workers, files, clock, delivered, heap, threads, pcm, web, quota>>

\* self.recording = False
stop_recording_106(c) ==
  /\ call[c].pc = "T106"
  /\ recording' = FALSE
  /\ Goto(c, "T109")
  /\ UNCHANGED <<audio_queue, frames, processing_thread, callback,
                 stream, output_file, env, threads, pcm, web, quota>>

\* a stop_recording that goes on to encode without joining the worker
stop_recording_109_no_join(c) ==
  /\ call[c].pc = "T109"
  /\ Goto(c, "T113")
  /\ UNCHANGED <<rec, env, threads, pcm, web, quota>>

\* if self.processing_thread: self.processing_thread.join()
\* join returns once the thread has ended, normally or by an exception
stop_recording_109(c) ==
  /\ call[c].pc = "T109"
  /\ processing_thread # NoThread =>
       workers[processing_thread].pc \in {"exit", "crashed"}
  /\ Goto(c, "T113")
  /\ UNCHANGED <<rec, env, threads, pcm, web, quota>>

\* if self.frames: audio_data = np.concatenate(self.frames, axis=0)
\*                 self._save_wav(audio_data, self.output_file)
\* The write succeeds, or wave.open / writeframes raises: before the file is
\* touched, or after wave.open(..., 'wb') has truncated it.
stop_recording_113(c) ==
  /\ call[c].pc = "T113"
  /\ IF frames = <<>>
     THEN /\ Goto(c, "T117")
          /\ UNCHANGED files
     ELSE IF output_file = NoPath
     THEN /\ Complete(c, "stop", "raise", "NoOutputFileAttribute", NoPath)
          /\ UNCHANGED files
     ELSE \/ /\ files' = [files EXCEPT ![output_file] = WavFile(stream, frames)]
             /\ Goto(c, "T117")
          \/ /\ Complete(c, "stop", "raise", "EncodeError", NoPath)
             /\ \/ UNCHANGED files
                \/ files' = [files EXCEPT ![output_file] = TruncatedFile(stream)]
  /\ UNCHANGED <<rec, streams, workers, clock, delivered, heap, threads, pcm, web, quota>>

\* return str(self.output_file)
stop_recording_117(c) ==
  /\ call[c].pc = "T117"
  /\ IF output_file = NoPath
     THEN Complete(c, "stop", "raise", "NoOutputFileAttribute", NoPath)
     ELSE Complete(c, "stop", "return", "none", output_file)
  /\ UNCHANGED <<rec, env, threads, pcm, web, quota>>

stop_recording(c) ==
  \/ stop_recording_100(c)
  \/ stop_recording_104(c)
  \/ stop_recording_105(c)
  \/ stop_recording_106(c)
  \/ stop_recording_109(c)
  \/ stop_recording_113(c)
  \/ stop_recording_117(c)

(***************************************************************************)
(* AudioRecorder.record: start_recording (above, with op = "record"), then *)
(*   try: time.sleep(duration)                                             *)
(*   except KeyboardInterrupt: print(...)                                  *)
(*   finally: return self.stop_recording()                                 *)
(***************************************************************************)
\* The sleep ends: it expires, or KeyboardInterrupt (caught, printed) or
\* another exception is raised in it.  On each of these paths control reaches
\* the finally clause, which calls stop_recording; what stop_recording returns
\* or raises is what record returns or raises (the return in the finally
\* clause discards a pending exception of the sleep).
record_147(c) ==
  /\ call[c].pc = "R147"
  /\ \E e \in SleepOutcomes :
       call' = [call EXCEPT ![c].stops = @ + 1, ![c].pc = "T100"]
  /\ UNCHANGED <<rec, env, threads, pcm, web, result, quota, session, returned>>

record(c) == record_147(c)

(***************************************************************************)
(* AudioRecorder._audio_callback, run by the driver's thread for every     *)
(* block of a running stream.                                              *)
(***************************************************************************)
\* address of indata, the buffer of the driver, which the driver fills anew
\* for every block
DriverBuffer == 0

\* variant: the array handed over is indata itself
copy_is_indata(indata, fresh) == indata

\* indata.copy(): the address of a new array, which gets the samples of indata
copy(indata, fresh) == fresh

\* the driver fills indata with block number Len(delivered) + 1, then
\* if status: print(...)
\* self.audio_queue.put(indata.copy())
_audio_callback(s) ==
  /\ streams[s] = "running"
  /\ Len(delivered) < MaxChunks
  /\ ~PutBlocks(audio_queue)
  /\ \E status \in StatusFlags :
       LET block == Len(delivered) + 1
           filled == [heap EXCEPT ![DriverBuffer] = block]
           a == copy(DriverBuffer, block)
           chunk == [id |-> block, sess |-> s, n |-> chunk_size, addr |-> a]
       IN /\ heap' = [filled EXCEPT ![a] = filled[DriverBuffer]]
          /\ audio_queue' = Append(audio_queue, chunk)
          /\ delivered' = Append(delivered, chunk)
  /\ UNCHANGED <<recording, frames, processing_thread, callback,
                 stream, output_file, streams, workers, files, clock, ctl, pcm, web>>

(***************************************************************************)
(* AudioRecorder._process_audio, run by the drain worker thread.           *)
(***************************************************************************)
\* while self.recording or not self.audio_queue.empty():
process_audio_42(w) ==
  /\ workers[w].pc = "L42"
  /\ workers' = [workers EXCEPT ![w].pc =
                   IF recording \/ audio_queue # <<>> THEN "L44" ELSE "exit"]
  /\ UNCHANGED <<rec, streams, files, clock, delivered, heap, ctl, pcm, web>>

\* variant: progress is reported on every turn of the loop, also after a
\* queue.Empty timeout
process_audio_44_reports_timeout(w) ==
  /\ workers[w].pc = "L44"
  /\ IF audio_queue # <<>>
     THEN /\ audio_queue' = Tail(audio_queue)
          /\ workers' = [workers EXCEPT
                           ![w].pc = "L45",
                           ![w].data = Head(audio_queue),
                           ![w].drained = Append(@, Head(audio_queue).id)]
     ELSE /\ workers' = [workers EXCEPT ![w].pc = "L48"]
          /\ UNCHANGED audio_queue
  /\ UNCHANGED <<recording, frames, processing_thread, callback,
                 stream, output_file, streams, files, clock, delivered, heap, ctl, pcm, web>>

\* variant: get() without a timeout, which waits until a chunk is queued
process_audio_44_blocking_get(w) ==
  /\ workers[w].pc = "L44"
  /\ audio_queue # <<>>
  /\ audio_queue' = Tail(audio_queue)
  /\ workers' = [workers EXCEPT
                   ![w].pc = "L45",
                   ![w].data = Head(audio_queue),
                   ![w].drained = Append(@, Head(audio_queue).id)]
  /\ UNCHANGED <<recording, frames, processing_thread, callback,
                 stream, output_file, streams, files, clock, delivered, heap, ctl, pcm, web>>

\* data = self.audio_queue.get(timeout=0.5)   /   except queue.Empty: continue
process_audio_44(w) ==
  /\ workers[w].pc = "L44"
  /\ IF audio_queue # <<>>
     THEN /\ audio_queue' = Tail(audio_queue)
          /\ workers' = [workers EXCEPT
                           ![w].pc = "L45",
                           ![w].data = Head(audio_queue),
                           ![w].drained = Append(@, Head(audio_queue).id)]
     ELSE /\ workers' = [workers EXCEPT ![w].pc = "L42"]
          /\ UNCHANGED audio_queue
  /\ UNCHANGED <<recording, frames, processing_thread, callback,
                 stream, output_file, streams, files, clock, delivered, heap, ctl, pcm, web>>

\* self.frames.append(data)
process_audio_45(w) ==
  /\ workers[w].pc = "L45"
  /\ frames' = Append(frames, workers[w].data)
  /\ workers' = [workers EXCEPT ![w].pc = "L48"]
  /\ UNCHANGED <<recording, audio_queue, processing_thread, callback,
                 stream, output_file, streams, files, clock, delivered, heap, ctl, pcm, web>>

\* if self.callback:
\*     duration = (len(self.frames) * self.chunk_size) / self.sample_rate
\*     self.callback(duration, len(data))
\* An exception of the callback is not caught in _process_audio (only
\* queue.Empty is): it ends the thread.  The duration is kept as the
\* fraction <<len(self.frames) * chunk_size, sample_rate>>.
process_audio_48(w) ==
  /\ workers[w].pc = "L48"
  /\ IF callback # "None"
     THEN \E raised \in (IF callback = "cbRaises" THEN BOOLEAN ELSE {FALSE}) :
            workers' = [workers EXCEPT
              ![w].pc = IF raised THEN "crashed" ELSE "L42",
              ![w].data = NoChunk,
              ![w].calls = Append(@, [id |-> workers[w].data.id,
                                      elapsed |-> <<Len(frames) * chunk_size, sample_rate>>,
                                      n |-> workers[w].data.n,
                                      raised |-> raised])]
     ELSE workers' = [workers EXCEPT ![w].pc = "L42", ![w].data = NoChunk]
  /\ UNCHANGED <<rec, streams, files, clock, delivered, heap, ctl, pcm, web>>

_process_audio(w) ==
  \/ process_audio_42(w)
  \/ process_audio_44(w)
  \/ process_audio_45(w)
  \/ process_audio_48(w)

(***************************************************************************)
(* The HTTP layer of main.py: the handlers of POST /api/recordings/start   *)
(* and POST /api/recordings/{session_id}/stop.  Both are coroutines        *)
(* without an await, run by the one event loop thread, which is the        *)
(* thread c that calls the recorder: a request is handled to its end       *)
(* before the next one is looked at, while the driver and the drain        *)
(* worker run on.                                                          *)
(***************************************************************************)
\* if recorder.recording: raise HTTPException(status_code=400, ...)
\* session_id = str(int(time.time()))
\* file_path = recorder.start_recording()        (the call begins)
api_start_recording_102(c) ==
  /\ request.kind = "none"
  /\ requests < MaxRequests
  /\ call[c].pc = "idle"
  /\ requests' = requests + 1
  /\ IF recording
     THEN /\ response' = [kind |-> "start", session_id |-> NoSession, status |-> 400]
          /\ UNCHANGED <<request, clock, call>>
     ELSE /\ \E now \in clock..MaxClock :
               /\ clock' = now
               /\ request' = [kind |-> "start", pc |-> "M110", session_id |-> now]
          /\ call' = [call EXCEPT ![c] =
                        [op |-> "start", pc |-> "S64", cb |-> "None", stops |-> 0]]
          /\ UNCHANGED response
  /\ UNCHANGED <<rec, streams, workers, files, delivered, heap, threads, result,
                 quota, session, returned, pcm, active_recordings, owner>>

\* recorder.start_recording() has returned:
\*   active_recordings[session_id] = {"start_time": ..., "file_path": file_path,
\*                                    "metadata": ...};  return {...}
\* or it has raised:
\*   except Exception as e: raise HTTPException(status_code=500, ...)
api_start_recording_113(c) ==
  /\ request.kind = "start"
  /\ request.pc = "M110"
  /\ call[c].pc = "idle"
  /\ IF result[c].out = "return"
     THEN /\ active_recordings' = [active_recordings EXCEPT ![request.session_id] =
                 [present |-> TRUE, file_path |-> result[c].val, status |-> "none"]]
          /\ owner' = request.session_id
          /\ response' = [kind |-> "start", session_id |-> request.session_id,
                          status |-> 200]
     ELSE /\ response' = [kind |-> "start", session_id |-> request.session_id,
                          status |-> 500]
          /\ UNCHANGED <<active_recordings, owner>>
  /\ request' = NoRequest
  /\ UNCHANGED <<rec, env, ctl, pcm, requests>>

api_start_recording(c) ==
  \/ api_start_recording_102(c)
  \/ api_start_recording_113(c)

\* if session_id not in active_recordings:
\*     raise HTTPException(status_code=404, ...)
\* file_path = recorder.stop_recording()         (the call begins)
api_stop_recording_130(c, id) ==
  /\ request.kind = "none"
  /\ requests < MaxRequests
  /\ call[c].pc = "idle"
  /\ requests' = requests + 1
  /\ IF ~active_recordings[id].present
     THEN /\ response' = [kind |-> "stop", session_id |-> id, status |-> 404]
          /\ UNCHANGED <<request, call>>
     ELSE /\ request' = [kind |-> "stop", pc |-> "M135", session_id |-> id]
          /\ call' = [call EXCEPT ![c] =
                        [op |-> "stop", pc |-> "T100", cb |-> "None", stops |-> 0]]
          /\ UNCHANGED response
  /\ UNCHANGED <<rec, env, threads, result, quota, session, returned, pcm,
                 active_recordings, owner>>

\* recorder.stop_recording() has returned:
\*   recording = active_recordings[session_id]
\*   recording.update({"end_time": ..., "status": "completed",
\*                     "file_path": file_path});  return {...}
\* or it has raised:
\*   except Exception as e: raise HTTPException(status_code=500, ...)
\* The recording in progress, if there was one, is over either way.
api_stop_recording_138(c) ==
  /\ request.kind = "stop"
  /\ request.pc = "M135"
  /\ call[c].pc = "idle"
  /\ IF result[c].out = "return"
     THEN /\ active_recordings' = [active_recordings EXCEPT ![request.session_id] =
                 [present |-> TRUE, file_path |-> result[c].val,
                  status |-> "completed"]]
          /\ response' = [kind |-> "stop", session_id |-> request.session_id,
                          status |-> 200]
     ELSE /\ response' = [kind |-> "stop", session_id |-> request.session_id,
                          status |-> 500]
          /\ UNCHANGED active_recordings
  /\ owner' = IF session = "active" THEN owner ELSE NoSession
  /\ request' = NoRequest
  /\ UNCHANGED <<rec, env, ctl, pcm, requests>>

api_stop_recording(c, id) ==
  \/ api_stop_recording_130(c, id)
  \/ api_stop_recording_138(c)

Init ==
  /\ recording = FALSE
  /\ audio_queue = <<>>
  /\ frames = <<>>
  /\ processing_thread = NoThread
  /\ callback = "None"
  /\ stream = NoStream
  /\ output_file = NoPath
  /\ streams = <<>>
  /\ workers = <<>>
  /\ files = [p \in Paths |-> NoFile]
  /\ clock = 0
  /\ delivered = <<>>
  /\ heap = [a \in 0..MaxChunks |-> 0]
  /\ threads = {1}
  /\ call = [c \in threads |-> IdleCall]
  /\ result = [c \in threads |-> NoResult]
  /\ quota = [c \in threads |-> MaxCalls]
  /\ session = "none"
  /\ returned = <<>>
  /\ audio_data = <<>>
  /\ audio_int16 = <<>>
  /\ active_recordings = [id \in SessionIds |-> NoEntry]
  /\ request = NoRequest
  /\ response = NoResponse
  /\ owner = NoSession
  /\ requests = 0

\* the same recorder shared by two calling threads that make one call each
InitConc ==
  /\ recording = FALSE
  /\ audio_queue = <<>>
  /\ frames = <<>>
  /\ processing_thread = NoThread
  /\ callback = "None"
  /\ stream = NoStream
  /\ output_file = NoPath
  /\ streams = <<>>
  /\ workers = <<>>
  /\ files = [p \in Paths |-> NoFile]
  /\ clock = 0
  /\ delivered = <<>>
  /\ heap = [a \in 0..MaxChunks |-> 0]
  /\ threads = {1, 2}
  /\ call = [c \in threads |-> IdleCall]
  /\ result = [c \in threads |-> NoResult]
  /\ quota = [c \in threads |-> 1]
  /\ session = "none"
  /\ returned = <<>>
  /\ audio_data = <<>>
  /\ audio_int16 = <<>>
  /\ active_recordings = [id \in SessionIds |-> NoEntry]
  /\ request = NoRequest
  /\ response = NoResponse
  /\ owner = NoSession
  /\ requests = 0

Next ==
  \/ \E c \in threads : Call(c)
  \/ \E c \in threads : start_recording(c)
  \/ \E c \in threads : stop_recording(c)
  \/ \E c \in threads : record(c)
  \/ \E s \in 1..Len(streams) : _audio_callback(s)
  \/ \E w \in 1..Len(workers) : _process_audio(w)

\* one calling thread (main.py calls the recorder from its event loop only)
Spec == Init /\ [][Next]_vars
\* two threads that call start_recording on the same recorder, once each
NextConc ==
  \/ \E c \in threads : CallStart(c)
  \/ \E c \in threads : start_recording(c)
  \/ \E s \in 1..Len(streams) : _audio_callback(s)
  \/ \E w \in 1..Len(workers) : _process_audio(w)

SpecConc == InitConc /\ [][NextConc]_vars

\* one calling thread, with the scheduler giving every thread that can take
\* a step its turn: the drain workers (daemon threads) and the thread that
\* is inside stop_recording.  The driver owes no callback, and the run of
\* the progress callback is part of the worker's step at line 50, so it
\* always comes back.
SpecFair ==
  /\ Init /\ [][Next]_vars
  /\ WF_vars(\E w \in 1..Len(workers) : _process_audio(w))
  /\ \A c \in {1} : WF_vars(stop_recording(c))

(***************************************************************************)
(* _save_wav taken alone: the conversion of float32 samples to int16.      *)
(* A sample is held in quarters, so that it and its product with 32767     *)
(* are exact in float32 (|k * 32767| < 2^24).                              *)
(***************************************************************************)
\* a / b rounded toward zero, for b > 0: what a float-to-integer cast does
\* to a value the target type can hold
TruncDiv(a, b) == IF a >= 0 THEN a \div b ELSE -((-a) \div b)

\* a / b rounded to the nearest integer, ties to even, for b > 0: round()
RoundDiv(a, b) ==
  LET q == a \div b
      r == a % b
  IN IF 2 * r < b THEN q
     ELSE IF 2 * r > b THEN q + 1
     ELSE IF q % 2 = 0 THEN q ELSE q + 1

\* v reduced to 16 bits, two's complement
Wrap16(v) == ((v + 32768) % 65536) - 32768

\* v limited to the int16 range
Clip16(v) == IF v > 32767 THEN 32767 ELSE IF v < -32768 THEN -32768 ELSE v

\* what a build may do with a float outside the int16 range in astype:
\* the cast is undefined in C, scalar code keeps the low 16 bits of the
\* truncated value, packed code saturates
CastOutcomes == {"wraps", "saturates"}

\* (k/4 * 32767) cast to np.int16 by a build that behaves as `how`
AsInt16(k, how) ==
  LET t == TruncDiv(k * 32767, 4)
  IN IF t \in -32768..32767 THEN t
     ELSE IF how = "wraps" THEN Wrap16(t) ELSE Clip16(t)

\* audio_int16 = (audio_data * 32767).astype(np.int16)
_save_wav ==
  /\ audio_data # <<>>
  /\ audio_int16 = <<>>
  /\ \E how \in CastOutcomes :
       audio_int16' = [i \in 1..Len(audio_data) |-> AsInt16(audio_data[i], how)]
  /\ UNCHANGED <<rec, env, ctl, audio_data, web>>

\* a recorder at rest and any array of 1..MaxSamples samples in
\* [-MaxQuarters/4, MaxQuarters/4]
InitWav ==
  /\ recording = FALSE
  /\ audio_queue = <<>>
  /\ frames = <<>>
  /\ processing_thread = NoThread
  /\ callback = "None"
  /\ stream = NoStream
  /\ output_file = NoPath
  /\ streams = <<>>
  /\ workers = <<>>
  /\ files = [p \in Paths |-> NoFile]
  /\ clock = 0
  /\ delivered = <<>>
  /\ heap = [a \in 0..MaxChunks |-> 0]
  /\ threads = {1}
  /\ call = [c \in threads |-> IdleCall]
  /\ result = [c \in threads |-> NoResult]
  /\ quota = [c \in threads |-> MaxCalls]
  /\ session = "none"
  /\ returned = <<>>
  /\ \E n \in 1..MaxSamples :
       audio_data \in [1..n -> -MaxQuarters..MaxQuarters]
  /\ audio_int16 = <<>>
  /\ active_recordings = [id \in SessionIds |-> NoEntry]
  /\ request = NoRequest
  /\ response = NoResponse
  /\ owner = NoSession
  /\ requests = 0

NextWav == _save_wav

SpecWav == InitWav /\ [][NextWav]_vars

\* the recorder behind the HTTP layer: every call of the recorder is made by
\* a request handler
NextHttp ==
  \/ \E c \in threads : api_start_recording(c)
  \/ \E c \in threads : \E id \in SessionIds : api_stop_recording(c, id)
  \/ \E c \in threads : start_recording(c)
  \/ \E c \in threads : stop_recording(c)
  \/ \E s \in 1..Len(streams) : _audio_callback(s)
  \/ \E w \in 1..Len(workers) : _process_audio(w)

SpecHttp == Init /\ [][NextHttp]_vars

(***************************************************************************)
(* Properties.                                                             *)
(***************************************************************************)
\* thread c is between two API calls and its last call ended in function fn
Ended(c, fn) == call[c].pc = "idle" /\ result[c].fn = fn

\* thread c executes line l of its call in this step
Executes(c, l) == call[c].pc = l /\ call'[c].pc # l

\* the chunk ids of the callback invocations worker w made, in order
InvokedIds(w) == [i \in 1..Len(workers[w].calls) |-> workers[w].calls[i].id]

\* the chunks worker w took from the queue and has finished handling
HandledIds(w) ==
  IF workers[w].pc \in {"L45", "L48"}
  THEN SubSeq(workers[w].drained, 1, Len(workers[w].drained) - 1)
  ELSE workers[w].drained

\* C1: when stop_recording returns for a session that start_recording opened,
\* self.frames is exactly the sequence of chunks the driver enqueued during
\* that session: each once, none missing, in arrival order.
C1_FramesAreTheSessionChunks ==
  \A c \in threads :
    (Ended(c, "stop") /\ result[c].out = "return" /\ result[c].sess = "active")
      => frames = SessionChunks(stream)

\* C2: at most one input stream is open and at most one drain worker is alive,
\* also when two threads call start_recording at the same time.
C2_AtMostOneSession ==
  /\ Cardinality(OpenStreams) <= 1
  /\ Cardinality(LiveWorkers) <= 1

\* C3: start_recording called while a session is active raises the
\* already-recording error and changes no field of the recorder, no stream, no
\* worker and no file.
C3_StartWhileActiveChangesNothing ==
  [][\A c \in threads :
       (Executes(c, "S64") /\ session = "active")
         => /\ call'[c].pc = "idle"
            /\ result'[c].out = "raise"
            /\ result'[c].exc = "AlreadyRecording"
            /\ UNCHANGED <<rec, env>>]_vars

C3_Witness ==
  \E c \in threads :
    /\ Ended(c, "start")
    /\ result[c].op = "start"
    /\ result[c].exc = "AlreadyRecording"
    /\ result[c].sess = "active"

\* C4: stop_recording called while no session is active (never started, or
\* already stopped) raises the not-recording error, writes no file and changes
\* nothing; so does a second stop_recording after a successful one.
C4_StopWhileIdleChangesNothing ==
  [][\A c \in threads :
       (Executes(c, "T100") /\ session = "none")
         => /\ call'[c].pc = "idle"
            /\ result'[c].out = "raise"
            /\ result'[c].exc = "NotRecording"
            /\ UNCHANGED <<rec, env>>]_vars

\* a stop_recording rejected after an earlier session was stopped and saved
C4_Witness ==
  \E c \in threads :
    /\ Ended(c, "stop")
    /\ result[c].exc = "NotRecording"
    /\ result[c].sess = "none"
    /\ \E p \in Paths : files[p] # NoFile

\* C5: a progress callback that raises does not end the drain worker.
C5_WorkerSurvivesCallbackException ==
  \A w \in 1..Len(workers) :
    (\E i \in 1..Len(workers[w].calls) : workers[w].calls[i].raised)
      => workers[w].pc # "crashed"

\* C6: after start_recording failed because the device could not be opened,
\* the recorder is Idle: the flag is false and no drain worker runs.
C6_IdleAfterFailedOpen ==
  \A c \in threads :
    (Ended(c, "start") /\ result[c].exc = "DeviceOpenError")
      => (~recording /\ LiveWorkers = {})

\* C7: when record returns after its start_recording succeeded, stop_recording
\* was invoked exactly once, every chunk captured is in the FrameBuffer and
\* saved, and the recorder is Idle.
C7_RecordStopsFlushesAndSaves ==
  \A c \in threads :
    (Ended(c, "stop") /\ result[c].op = "record" /\ result[c].out = "return")
      => /\ result[c].stops = 1
         /\ frames = SessionChunks(stream)
         /\ frames # <<>> => files[output_file].data = frames
         /\ ~recording
         /\ LiveWorkers = {}

\* C8: a session in which the driver delivered no chunk ends with
\* stop_recording returning the output path, an empty FrameBuffer, no WAV file
\* written by the session, and the recorder Idle.
C8_EmptySessionWritesNothing ==
  \A c \in threads :
    (Ended(c, "stop") /\ result[c].sess = "active" /\ SessionChunks(stream) = <<>>)
      => /\ result[c].out = "return"
         /\ result[c].val = output_file
         /\ frames = <<>>
         /\ \A p \in Paths : files[p].sess # stream
         /\ ~recording

\* C9: in a session with a registered callback the callback is invoked exactly
\* once for each chunk the worker has drained, in drain order, and the elapsed
\* times of successive invocations never decrease; with no callback
\* registered nothing is invoked.
C9_CallbackOncePerDrainedChunk ==
  \A w \in 1..Len(workers) :
    /\ workers[w].registered # "None" => InvokedIds(w) = HandledIds(w)
    /\ workers[w].registered = "None" => workers[w].calls = <<>>
    /\ \A i, j \in 1..Len(workers[w].calls) :
         i < j => FracLeq(workers[w].calls[i].elapsed, workers[w].calls[j].elapsed)

\* a worker has made two invocations
C9_Witness ==
  \E w \in 1..Len(workers) :
    Len(workers[w].calls) >= 2 /\ workers[w].pc = "exit"

\* C10: whenever a stream is running the driver callback can run, whatever
\* the queue length and whatever the worker does, and it appends exactly one
\* chunk to the queue, for every status.
C10_DriverCallbackNeverBlocks ==
  /\ [](\A s \in 1..Len(streams) :
          (streams[s] = "running" /\ Len(delivered) < MaxChunks)
            => ENABLED _audio_callback(s))
  /\ [][delivered' # delivered
          => /\ Len(delivered') = Len(delivered) + 1
             /\ audio_queue' = Append(audio_queue, delivered'[Len(delivered')])]_vars

\* the driver has enqueued its last chunk behind a chunk the worker is still
\* handling with a registered callback, under a running stream
C10_Witness ==
  /\ audio_queue # <<>>
  /\ audio_queue[Len(audio_queue)] = delivered[Len(delivered)]
  /\ \E s \in 1..Len(streams) : streams[s] = "running"
  /\ \E w \in 1..Len(workers) :
       workers[w].pc = "L48" /\ workers[w].registered # "None"

\* C11: any two start_recording calls that succeeded returned different
\* output paths, so no session's WAV file is overwritten by a later session.
C11_ReturnedPathsAreDistinct ==
  \A i, j \in 1..Len(returned) : i # j => returned[i] # returned[j]

\* C12: when a session in which chunks were delivered is stopped, the WAV file
\* at the path its start_recording returned holds the session's chunks in
\* delivery order, as many frames as they have together, at the configured
\* sample rate and channel count, with 16-bit samples.
C12_WavHoldsTheSessionFrames ==
  \A c \in threads :
    (/\ Ended(c, "stop") /\ result[c].out = "return" /\ result[c].sess = "active"
     /\ SessionChunks(stream) # <<>>)
      => /\ result[c].val = returned[Len(returned)]
         /\ files[result[c].val].sess = stream
         /\ files[result[c].val].whole
         /\ files[result[c].val].data = SessionChunks(stream)
         /\ files[result[c].val].nframes = FrameCount(SessionChunks(stream))
         /\ files[result[c].val].framerate = sample_rate
         /\ files[result[c].val].nchannels = channels
         /\ files[result[c].val].sampwidth = 2

\* C13: every 16-bit sample _save_wav writes is round(s * 32767) limited to
\* [-32768, 32767], for samples outside [-1.0, 1.0] too, and no sample comes
\* out with the sign opposite to its own.
C13_SamplesAreRoundedAndClipped ==
  audio_int16 # <<>> =>
    \A i \in 1..Len(audio_data) :
      /\ audio_int16[i] = Clip16(RoundDiv(audio_data[i] * 32767, 4))
      /\ audio_data[i] > 0 => audio_int16[i] >= 0
      /\ audio_data[i] < 0 => audio_int16[i] <= 0

\* C14: when the WAV write fails inside stop_recording the error reaches the
\* caller and the recorder is idle all the same: the stream is closed, the
\* recording flag is false and the drain worker has ended, so the next
\* start_recording is not refused.
C14_IdleAfterFailedWrite ==
  /\ [](\A c \in threads :
          (Ended(c, "stop") /\ result[c].exc = "EncodeError")
            => /\ result[c].out = "raise"
               /\ ~recording
               /\ OpenStreams = {}
               /\ LiveWorkers = {})
  /\ [][\A c \in threads :
          /\ (/\ Executes(c, "T113") /\ frames # <<>> /\ output_file # NoPath
              /\ files'[output_file] # WavFile(stream, frames))
               => (Ended(c, "stop") /\ result[c].exc = "EncodeError")'
          /\ (/\ result[c].fn = "stop" /\ result[c].exc = "EncodeError"
              /\ Executes(c, "S64"))
               => call'[c].pc = "S67"]_vars

\* a write failed in stop_recording and the next start_recording has passed
\* its check
C14_Witness ==
  \E c \in threads :
    /\ result[c].fn = "stop" /\ result[c].exc = "EncodeError"
    /\ call[c].pc = "S67"

\* C15: the drain worker ends only from a state in which the recording flag
\* is false and the queue is empty, and only at the loop test: never while
\* the flag is true or a chunk is queued, and never on a queue-wait timeout.
C15_WorkerExitsOnlyWhenDrained ==
  [][\A w \in 1..Len(workers) :
       (/\ workers[w].pc \notin {"exit", "crashed"}
        /\ workers'[w].pc \in {"exit", "crashed"})
         => /\ ~recording
            /\ audio_queue = <<>>
            /\ workers[w].pc = "L42"]_vars

\* C16: stop_recording stops and closes the stream, then clears the recording
\* flag, then joins the drain worker, then encodes: the flag is cleared only
\* with the stream closed, the join starts only with the flag cleared, the
\* FrameBuffer is read for encoding only when no worker is alive, and no
\* chunk is enqueued while the flag is false.
C16_StopOrder ==
  [][/\ \A c \in threads :
          /\ Executes(c, "T106") => streams[stream] = "closed"
          /\ Executes(c, "T109") => (~recording /\ OpenStreams = {})
          /\ Executes(c, "T113") =>
                (~recording /\ OpenStreams = {} /\ LiveWorkers = {})
     /\ ~recording => (delivered' = delivered /\ Len(audio_queue') <= Len(audio_queue))
    ]_vars

\* stop_recording is about to encode the chunks of a session that its worker
\* drained to the end
C16_Witness ==
  \E c \in threads :
    /\ call[c].pc = "T113"
    /\ frames # <<>>
    /\ frames = SessionChunks(stream)
    /\ workers[processing_thread].pc = "exit"

\* C17: with the drain worker and the caller scheduled fairly and a progress
\* callback that comes back, every stop_recording called while a session is
\* active ends: the worker empties the queue, sees the cleared flag and ends,
\* and the join completes.
C17_StopEventuallyReturns ==
  \A c \in {1} :
    (call[c].pc = "T100" /\ session = "active")
      ~> (call[c].pc = "idle" /\ result[c].fn = "stop" /\ result[c].sess = "active")

\* a stop_recording of an active session has returned after its worker
\* drained chunks and left the loop
C17_Witness ==
  \E c \in threads :
    /\ Ended(c, "stop") /\ result[c].out = "return" /\ result[c].sess = "active"
    /\ processing_thread # NoThread
    /\ workers[processing_thread].pc = "exit"
    /\ workers[processing_thread].drained # <<>>

\* C18: seen by the caller the recorder is either idle or recording: whenever
\* no call is in progress and the recording flag is false, no drain worker is
\* alive, no stream is open and the queue is empty; and start_recording and
\* stop_recording called in turn, with a device that works, are never refused
\* for the state the recorder is in.
C18_OnlyIdleAndRecording ==
  /\ [](\A c \in threads :
          (call[c].pc = "idle" /\ ~recording)
            => (LiveWorkers = {} /\ OpenStreams = {} /\ audio_queue = <<>>))
  /\ [][\A c \in threads :
          /\ (Executes(c, "S64") /\ session = "none") => call'[c].pc = "S67"
          /\ (Executes(c, "T100") /\ session = "active") => call'[c].pc = "T104"
          /\ (/\ call[c].pc # "idle" /\ call'[c].pc = "idle"
              /\ result'[c].fn = "stop" /\ session = "active")
               => result'[c].exc \in {"none", "EncodeError"}
        ]_vars

\* C19: the k-th invocation of the progress callback in a session, k counted
\* from 1 in every session, gets elapsedSeconds = k * chunk_size / sample_rate
\* and the frame count of the k-th chunk the session's worker drained.
C19_KthCallbackArguments ==
  \A w \in 1..Len(workers) :
    \A k \in 1..Len(workers[w].calls) :
      /\ workers[w].calls[k].elapsed[1] * sample_rate
           = k * chunk_size * workers[w].calls[k].elapsed[2]
      /\ k <= Len(workers[w].drained)
      /\ workers[w].calls[k].id = workers[w].drained[k]
      /\ workers[w].calls[k].n = delivered[workers[w].drained[k]].n

\* the worker of a second session has invoked the callback after the first
\* session recorded a chunk
C19_Witness ==
  /\ Len(workers) >= 2
  /\ workers[1].drained # <<>>
  /\ workers[2].calls # <<>>
  /\ workers[2].drained[1] \notin {workers[1].drained[i] : i \in 1..Len(workers[1].drained)}

\* C20: every chunk that is in the queue, in the hands of the worker or in
\* the FrameBuffer holds the samples of the block it was made from, whatever
\* the driver has written into its own buffer since.
C20_ChunksAreIndependentCopies ==
  /\ \A i \in 1..Len(audio_queue) : heap[audio_queue[i].addr] = audio_queue[i].id
  /\ \A i \in 1..Len(frames) : heap[frames[i].addr] = frames[i].id
  /\ \A w \in 1..Len(workers) :
       workers[w].data # NoChunk => heap[workers[w].data.addr] = workers[w].data.id

\* the driver has filled its buffer with the second block while the chunk
\* of the first is in the queue or in the FrameBuffer
C20_Witness ==
  /\ heap[DriverBuffer] = 2
  /\ \/ \E i \in 1..Len(audio_queue) : audio_queue[i].id = 1
     \/ \E i \in 1..Len(frames) : frames[i].id = 1

\* C21: sessions are isolated: the FrameBuffer holds only chunks the driver
\* delivered through the stream of the session it belongs to, and every WAV
\* file holds only chunks of the session that wrote it, also after sessions
\* in which the callback raised or an operation failed.
C21_SessionsAreIsolated ==
  /\ \A i \in 1..Len(frames) : frames[i].sess = stream
  /\ \A p \in Paths :
       \A i \in 1..Len(files[p].data) : files[p].data[i].sess = files[p].sess

\* C22: record called while a session is active fails with the
\* already-recording error and never calls stop_recording: the session stays
\* active and no field of the recorder, no stream, no worker and no file
\* changes.
C22_RecordWhileActiveLeavesSession ==
  [][\A c \in threads :
       (Executes(c, "S64") /\ call[c].op = "record" /\ session = "active")
         => /\ call'[c].pc = "idle"
            /\ result'[c].op = "record"
            /\ result'[c].out = "raise"
            /\ result'[c].exc = "AlreadyRecording"
            /\ result'[c].stops = 0
            /\ session' = "active"
            /\ recording'
            /\ UNCHANGED <<rec, env>>]_vars

\* record was refused while a session was recording, and that session's
\* stream is still running with its worker alive
C22_Witness ==
  \E c \in threads :
    /\ call[c].pc = "idle"
    /\ result[c].op = "record"
    /\ result[c].exc = "AlreadyRecording"
    /\ result[c].sess = "active"
    /\ session = "active"
    /\ streams[stream] = "running"
    /\ processing_thread \in LiveWorkers

\* C23: in the HTTP layer a stop request stops the recorder only when its
\* session id is the one of the recording in progress, and a stop request
\* for an id that was never stored is answered 404 and leaves the recorder
\* as it is.
C23_StopOnlyItsOwnSession ==
  [][\A c \in threads :
       /\ (/\ request.kind = "stop" /\ session = "active"
           /\ Executes(c, "T100") /\ call'[c].pc = "T104")
            => request.session_id = owner
       /\ \A id \in SessionIds :
            (/\ request.kind = "none" /\ requests' = requests + 1
             /\ ~active_recordings[id].present
             /\ \/ request'.kind = "stop" /\ request'.session_id = id
                \/ /\ request' = request
                   /\ response'.kind = "stop" /\ response'.session_id = id)
              => /\ response'.status = 404
                 /\ request' = NoRequest
                 /\ UNCHANGED <<rec, env, ctl>>]_vars
====
